---- MODULE Spec2Model ----
(***************************************************************************)
(* The glTF toon-material example (examples/3d/load_gltf_toon.rs).         *)
(*                                                                         *)
(* Three specifications share the variables below:                         *)
(*   Spec         the application: the Startup schedule (setup) followed   *)
(*                by frames of the Update schedule                         *)
(*                (animate_light_direction);                               *)
(*   SpecAnimate  animate_light_direction applied to an arbitrary world;   *)
(*   SpecAdapter  ToonShader::from_standard_material applied to an         *)
(*                arbitrary metadata text and base material.               *)
(*                                                                         *)
(* Numbers: an f32 is a fixed-point integer, 10000 standing for 1.0.       *)
(* Angles are counted in units of pi/8, elapsed time in ticks of 1.25 s,   *)
(* so that elapsed_seconds * PI / 5.0 is a whole number of angle units     *)
(* and the sines and cosines needed are those of multiples of pi/8.        *)
(***************************************************************************)
EXTENDS Integers, Sequences, FiniteSets, TLC

VARIABLES
    world,        \* the ECS world: a sequence of entities, in spawn order
    loads,        \* the asset server's load requests, in request order
    elapsed,      \* Time::elapsed, in ticks of 1.25 s
    started,      \* the Startup schedule has run
    frames,       \* runs of the Update schedule so far
    setupRuns,    \* executions of setup so far
    animateRuns,  \* executions of animate_light_direction so far
    assigned,     \* elapsed tick -> the rotation animate_light_direction assigned at it
    fresh,        \* animate_light_direction has run since elapsed last changed
    doc,          \* the metadata document of the glTF material, as authored
    gltf_extras,  \* the metadata text handed to from_standard_material
    results       \* base material -> the ToonShader returned for it

vars == <<world, loads, elapsed, started, frames, setupRuns, animateRuns,
          assigned, fresh, doc, gltf_extras, results>>

-----------------------------------------------------------------------------
(* Bounds of the model.                                                    *)

MaxFrames == 4      \* frames of the Update schedule in one run
MaxDelta == 8       \* largest step of elapsed time between two frames, in ticks
MaxEntities == 2    \* entities of the arbitrary world of SpecAnimate
MaxCut == 2         \* tokens a truncated metadata text can lack at its end

-----------------------------------------------------------------------------
(* f32 arithmetic in fixed point, rounding to nearest, ties away from 0.   *)

Abs(a) == IF a < 0 THEN -a ELSE a

Mul(a, b) ==
    LET m == (Abs(a) * Abs(b) + 5000) \div 10000
    IN  IF (a < 0) = (b < 0) THEN m ELSE -m

\* std::f32::consts, in angle units of pi/8.
PI == 8
FRAC_PI_4 == 2

\* sin of an angle given in units of pi/8.
Sin(a) ==
    LET r == a % 16
        q == CASE r % 8 = 0 -> 0
               [] r % 8 = 1 -> 3827
               [] r % 8 = 2 -> 7071
               [] r % 8 = 3 -> 9239
               [] r % 8 = 4 -> 10000
               [] r % 8 = 5 -> 9239
               [] r % 8 = 6 -> 7071
               [] r % 8 = 7 -> 3827
    IN  IF r < 8 THEN q ELSE -q

Cos(a) == Sin(a + 4)

-----------------------------------------------------------------------------
(* glam::Quat.                                                             *)

Quat(x, y, z, w) == [x |-> x, y |-> y, z |-> z, w |-> w]

IDENTITY == Quat(0, 0, 0, 10000)

\* Quat * Quat: the Hamilton product.
QuatMul(a, b) ==
    Quat(Mul(a.w, b.x) + Mul(a.x, b.w) + Mul(a.y, b.z) - Mul(a.z, b.y),
         Mul(a.w, b.y) - Mul(a.x, b.z) + Mul(a.y, b.w) + Mul(a.z, b.x),
         Mul(a.w, b.z) + Mul(a.x, b.y) - Mul(a.y, b.x) + Mul(a.z, b.w),
         Mul(a.w, b.w) - Mul(a.x, b.x) - Mul(a.y, b.y) - Mul(a.z, b.z))

QuatNeg(q) == Quat(-q.x, -q.y, -q.z, -q.w)

\* Quat::from_rotation_{x,y,z}: (sin(angle / 2) * axis, cos(angle / 2)).
from_rotation_x(angle) == Quat(Sin(angle \div 2), 0, 0, Cos(angle \div 2))
from_rotation_y(angle) == Quat(0, Sin(angle \div 2), 0, Cos(angle \div 2))
from_rotation_z(angle) == Quat(0, 0, Sin(angle \div 2), Cos(angle \div 2))

\* Quat::from_euler(EulerRot::ZYX, a, b, c): rotate about Z by a, about Y by b,
\* about X by c.
from_euler_ZYX(a, b, c) ==
    QuatMul(QuatMul(from_rotation_z(a), from_rotation_y(b)), from_rotation_x(c))

\* time.elapsed_seconds() * PI / 5.0, for elapsed = t ticks of 5/4 s.
LightAngleY_Fast(t) == (t * 5 * PI * 2) \div (4 * 5)
LightAngleY(t) == (t * 5 * PI) \div (4 * 5)

\* The value animate_light_direction computes at elapsed time t.
LightRotation(t) == from_euler_ZYX(0, LightAngleY(t), -FRAC_PI_4)

-----------------------------------------------------------------------------
(* Transforms and entities.                                                *)

Vec3(x, y, z) == <<x, y, z>>

\* Transform::IDENTITY.
TransformIdentity ==
    [translation |-> Vec3(0, 0, 0), rotation |-> IDENTITY,
     scale |-> Vec3(10000, 10000, 10000)]

\* Transform::from_xyz(3.0, 2.0, 0.0).looking_at(Vec3::new(0.0, 0.3, 0.0), Vec3::Y):
\* the rotation whose back axis is the normalised (3, 1.7, 0).
CameraTransform ==
    [translation |-> Vec3(30000, 20000, 0),
     rotation |-> Quat(-1803, 6837, 1803, 6837),
     scale |-> Vec3(10000, 10000, 10000)]

\* Transform::from_translation(Vec3::new(-1., 0., 0.))
\*     .with_rotation(Quat::from_rotation_y(f32::to_radians(45.0)))
\*     .with_scale(Vec3::splat(1.4)).
HelmetTransform ==
    [translation |-> Vec3(-10000, 0, 0),
     rotation |-> from_rotation_y(FRAC_PI_4),
     scale |-> Vec3(14000, 14000, 14000)]

\* An entity: its bundle's name, whether it carries a DirectionalLight, and its
\* Transform.
Entity(name, light, transform) ==
    [name |-> name, light |-> light, transform |-> transform]

\* Query<&mut Transform, With<DirectionalLight>>: the matching entities.
LightQuery(w) == {i \in DOMAIN w : w[i].light}

-----------------------------------------------------------------------------
(* The asset server's load requests.                                       *)

\* An asset path is written as its segments: the file path and, after "#", the
\* label. AssetPath::parse splits them.
AssetPathParse(segs) ==
    [path |-> segs[1],
     label |-> IF Len(segs) >= 3 /\ segs[2] = "#" THEN segs[3] ELSE "none"]

\* asset_server.load(path) and load_with_settings(path, settings).
LoadRequest(segs, settings) ==
    [path |-> AssetPathParse(segs).path, label |-> AssetPathParse(segs).label,
     settings |-> settings]

\* The loads setup issues, in order. Every handle is stored in a component of a
\* spawned entity, so all of them stay alive.
SetupLoads_SamePath ==
    << LoadRequest(<<"environment_maps/pisa_diffuse_rgb9e5_zstd.ktx2">>, "default"),
       LoadRequest(<<"environment_maps/pisa_specular_rgb9e5_zstd.ktx2">>, "default"),
       LoadRequest(<<"models/FlightHelmet/FlightHelmet.gltf", "#", "Scene0">>,
                   "with_default_material<ToonMaterial>"),
       LoadRequest(<<"models/FlightHelmet/FlightHelmet.gltf", "#", "Scene0">>,
                   "default") >>

SetupLoads ==
    << LoadRequest(<<"environment_maps/pisa_diffuse_rgb9e5_zstd.ktx2">>, "default"),
       LoadRequest(<<"environment_maps/pisa_specular_rgb9e5_zstd.ktx2">>, "default"),
       LoadRequest(<<"models/FlightHelmet/FlightHelmet.gltf", "#", "Scene0">>,
                   "with_default_material<ToonMaterial>"),
       LoadRequest(<<"models/ToonBalls/toon_balls.gltf", "#", "Scene0">>,
                   "default") >>

-----------------------------------------------------------------------------
(* The systems. A system maps the part of the state it can touch,          *)
(*   [world, loads, setupRuns, animateRuns, assigned],                     *)
(* to its value after the system has run and its commands were applied.    *)

\* The entities setup spawns, in order.
SetupSpawns ==
    << Entity("Camera3dBundle", FALSE, CameraTransform),
       Entity("DirectionalLightBundle", TRUE, TransformIdentity),
       Entity("SceneBundle", FALSE, HelmetTransform),
       Entity("SceneBundle", FALSE, TransformIdentity) >>

setup(st) ==
    [st EXCEPT !.world = st.world \o SetupSpawns,
               !.loads = st.loads \o SetupLoads,
               !.setupRuns = st.setupRuns + 1]

\* A variant that composes the new rotation onto the old one.
animate_light_direction_Accumulate(st, t) ==
    LET w == [i \in DOMAIN st.world |->
                 IF st.world[i].light
                 THEN [st.world[i] EXCEPT !.transform.rotation =
                          QuatMul(st.world[i].transform.rotation, LightRotation(t))]
                 ELSE st.world[i]]
        q == LightQuery(w)
    IN  [st EXCEPT !.world = w,
                   !.animateRuns = st.animateRuns + 1,
                   !.assigned =
                       IF q = {} THEN st.assigned
                       ELSE [x \in DOMAIN st.assigned \cup {t} |->
                                IF x = t
                                THEN w[CHOOSE i \in q : TRUE].transform.rotation
                                ELSE st.assigned[x]]]

animate_light_direction(st, t) ==
    LET w == [i \in DOMAIN st.world |->
                 IF st.world[i].light
                 THEN [st.world[i] EXCEPT !.transform.rotation = LightRotation(t)]
                 ELSE st.world[i]]
        q == LightQuery(w)
    IN  [st EXCEPT !.world = w,
                   !.animateRuns = st.animateRuns + 1,
                   !.assigned =
                       IF q = {} THEN st.assigned
                       ELSE [x \in DOMAIN st.assigned \cup {t} |->
                                IF x = t
                                THEN w[CHOOSE i \in q : TRUE].transform.rotation
                                ELSE st.assigned[x]]]

\* main: add_systems(Startup, setup), add_systems(Update, animate_light_direction).
StartupSystems == <<"setup">>

UpdateSystems_SetupEachFrame == <<"setup", "animate_light_direction">>

UpdateSystems == <<"animate_light_direction">>

RunSystem(name, st, t) ==
    CASE name = "setup" -> setup(st)
      [] name = "animate_light_direction" -> animate_light_direction(st, t)

RECURSIVE RunSchedule(_, _, _)
RunSchedule(systems, st, t) ==
    IF systems = <<>> THEN st
    ELSE RunSchedule(Tail(systems), RunSystem(Head(systems), st, t), t)

SystemState ==
    [world |-> world, loads |-> loads, setupRuns |-> setupRuns,
     animateRuns |-> animateRuns, assigned |-> assigned]

Commit(st) ==
    /\ world' = st.world
    /\ loads' = st.loads
    /\ setupRuns' = st.setupRuns
    /\ animateRuns' = st.animateRuns
    /\ assigned' = st.assigned

-----------------------------------------------------------------------------
(* The metadata text. A text is the sequence of its JSON tokens; a token   *)
(* is a punctuation mark, a string, a number, null, or "junk" (characters  *)
(* that start no JSON token).                                              *)

Tok(k) == [k |-> k, s |-> "", n |-> 0]
Str(s) == [k |-> "str", s |-> s, n |-> 0]
Num(n) == [k |-> "num", s |-> "", n |-> n]

\* Option<&str>.
NoExtras == [some |-> FALSE, text |-> <<>>]
SomeExtras(text) == [some |-> TRUE, text |-> text]

\* The result of deserializing a value that starts at a position of the text:
\* Ok(value, position after it) or Err.
Ok(v, pos) == [ok |-> TRUE, val |-> v, pos |-> pos]
Err == [ok |-> FALSE, val |-> <<>>, pos |-> 0]

At(toks, i, k) == i <= Len(toks) /\ toks[i].k = k

\* f32: any JSON number.
DeserializeF32(toks, i) ==
    IF At(toks, i, "num") THEN Ok(toks[i].n, i + 1) ELSE Err

\* serde::de::IgnoredAny: any one JSON value; the position after it, 0 on error.
RECURSIVE SkipValue(_, _)
RECURSIVE SkipElements(_, _)
RECURSIVE SkipMembers(_, _)
SkipValue(toks, i) ==
    IF i > Len(toks) THEN 0
    ELSE IF toks[i].k \in {"num", "str", "null"} THEN i + 1
    ELSE IF toks[i].k = "[" THEN
        IF At(toks, i + 1, "]") THEN i + 2 ELSE SkipElements(toks, i + 1)
    ELSE IF toks[i].k = "{" THEN
        IF At(toks, i + 1, "}") THEN i + 2 ELSE SkipMembers(toks, i + 1)
    ELSE 0

\* The elements of an array from position i on, up to and including "]".
SkipElements(toks, i) ==
    LET j == SkipValue(toks, i)
    IN  IF j = 0 THEN 0
        ELSE IF At(toks, j, ",") THEN SkipElements(toks, j + 1)
        ELSE IF At(toks, j, "]") THEN j + 1
        ELSE 0

\* The members of an object from position i on, up to and including "}".
SkipMembers(toks, i) ==
    IF ~(At(toks, i, "str") /\ At(toks, i + 1, ":")) THEN 0
    ELSE LET j == SkipValue(toks, i + 2)
         IN  IF j = 0 THEN 0
             ELSE IF At(toks, j, ",") THEN SkipMembers(toks, j + 1)
             ELSE IF At(toks, j, "}") THEN j + 1
             ELSE 0

\* Option<T> as a sequence of at most one element.
IsSome(o) == Len(o) = 1

-----------------------------------------------------------------------------
(* LinearRgba { red, green, blue, alpha }, with its derived Deserialize:   *)
(* a sequence of exactly four numbers, or a map with the four keys.        *)

LinearRgba(r, g, b, a) == [red |-> r, green |-> g, blue |-> b, alpha |-> a]

\* LinearRgba::rgb: alpha is 1.0.
LinearRgba_rgb(r, g, b) == LinearRgba(r, g, b, 10000)

RgbaFields == <<"red", "green", "blue", "alpha">>

\* The numbers of a sequence from position i on, up to and including "]":
\* Ok(the numbers read, position after "]").
RECURSIVE F32Elements(_, _, _)
F32Elements(toks, i, acc) ==
    LET r == DeserializeF32(toks, i)
    IN  IF ~r.ok THEN Err
        ELSE IF At(toks, r.pos, ",") THEN F32Elements(toks, r.pos + 1, Append(acc, r.val))
        ELSE IF At(toks, r.pos, "]") THEN Ok(Append(acc, r.val), r.pos + 1)
        ELSE Err

\* The members of a LinearRgba map from position i on, up to and including "}".
\* acc maps each field to the value read for it so far.
RECURSIVE RgbaMembers(_, _, _)
RgbaMembers(toks, i, acc) ==
    IF ~(At(toks, i, "str") /\ At(toks, i + 1, ":")) THEN Err
    ELSE
        LET key == toks[i].s
            known == key \in DOMAIN acc
            r == DeserializeF32(toks, i + 2)
            j == IF known THEN r.pos ELSE SkipValue(toks, i + 2)
            acc2 == IF known THEN [acc EXCEPT ![key] = <<r.val>>] ELSE acc
        IN  IF known /\ IsSome(acc[key]) THEN Err          \* duplicate field
            ELSE IF known /\ ~r.ok THEN Err
            ELSE IF j = 0 THEN Err
            ELSE IF At(toks, j, ",") THEN RgbaMembers(toks, j + 1, acc2)
            ELSE IF At(toks, j, "}") THEN
                IF \A f \in DOMAIN acc2 : IsSome(acc2[f])
                THEN Ok(LinearRgba(acc2.red[1], acc2.green[1], acc2.blue[1],
                                   acc2.alpha[1]), j + 1)
                ELSE Err                                   \* missing field
            ELSE Err

DeserializeLinearRgba(toks, i) ==
    IF At(toks, i, "[") THEN
        LET r == F32Elements(toks, i + 1, <<>>)
        IN  IF r.ok /\ Len(r.val) = Len(RgbaFields)
            THEN Ok(LinearRgba(r.val[1], r.val[2], r.val[3], r.val[4]), r.pos)
            ELSE Err
    ELSE IF At(toks, i, "{") THEN
        RgbaMembers(toks, i + 1, [f \in {"red", "green", "blue", "alpha"} |-> <<>>])
    ELSE Err

-----------------------------------------------------------------------------
(* ToonShader { cutoff: f32, dark: LinearRgba, light: LinearRgba } with    *)
(* its derived Deserialize.                                                *)

ToonShader(cutoff, dark, light) == [cutoff |-> cutoff, dark |-> dark, light |-> light]

\* The default of from_standard_material.
DefaultToonShader_Zeroed ==
    ToonShader(0, LinearRgba(0, 0, 0, 0), LinearRgba(0, 0, 0, 0))

DefaultToonShader ==
    ToonShader(5000, LinearRgba_rgb(4000, 4000, 4000), LinearRgba_rgb(8000, 8000, 8000))

\* The field a key of the map names: one of the struct's fields, or "__ignore"
\* for any other key, whose value is skipped ("__deny" would reject the key).
ToonShaderField_DenyUnknown(key) ==
    IF key \in {"cutoff", "dark", "light"} THEN key ELSE "__deny"

ToonShaderField(key) ==
    IF key \in {"cutoff", "dark", "light"} THEN key ELSE "__ignore"

\* The struct built at the end of the map from the fields read: an error when a
\* field is missing.
ToonShaderBuild_FillDefaults(acc) ==
    Ok(ToonShader(
        IF IsSome(acc.cutoff) THEN acc.cutoff[1] ELSE DefaultToonShader.cutoff,
        IF IsSome(acc.dark) THEN acc.dark[1] ELSE DefaultToonShader.dark,
        IF IsSome(acc.light) THEN acc.light[1] ELSE DefaultToonShader.light), 0)

ToonShaderBuild_SwapColours(acc) ==
    IF IsSome(acc.cutoff) /\ IsSome(acc.dark) /\ IsSome(acc.light)
    THEN Ok(ToonShader(acc.cutoff[1], acc.light[1], acc.dark[1]), 0)
    ELSE Err

ToonShaderBuild(acc) ==
    IF IsSome(acc.cutoff) /\ IsSome(acc.dark) /\ IsSome(acc.light)
    THEN Ok(ToonShader(acc.cutoff[1], acc.dark[1], acc.light[1]), 0)
    ELSE Err

\* The members of a ToonShader map from position i on, up to and including "}".
RECURSIVE ToonShaderMembers(_, _, _)
ToonShaderMembers(toks, i, acc) ==
    IF ~(At(toks, i, "str") /\ At(toks, i + 1, ":")) THEN Err
    ELSE
        LET field == ToonShaderField(toks[i].s)
            known == field \in DOMAIN acc
            r == IF field = "cutoff" THEN DeserializeF32(toks, i + 2)
                 ELSE DeserializeLinearRgba(toks, i + 2)
            j == IF known THEN r.pos ELSE SkipValue(toks, i + 2)
            acc2 == IF known THEN [acc EXCEPT ![field] = <<r.val>>] ELSE acc
        IN  IF field = "__deny" THEN Err                   \* unknown field
            ELSE IF known /\ IsSome(acc[field]) THEN Err   \* duplicate field
            ELSE IF known /\ ~r.ok THEN Err
            ELSE IF j = 0 THEN Err
            ELSE IF At(toks, j, ",") THEN ToonShaderMembers(toks, j + 1, acc2)
            ELSE IF At(toks, j, "}") THEN
                LET b == ToonShaderBuild(acc2)
                IN  IF b.ok THEN Ok(b.val, j + 1) ELSE Err
            ELSE Err

\* The struct read as a sequence: its three fields in declaration order.
ToonShaderSeq(toks, i) ==
    LET c == DeserializeF32(toks, i)
        d == IF c.ok /\ At(toks, c.pos, ",")
             THEN DeserializeLinearRgba(toks, c.pos + 1) ELSE Err
        l == IF d.ok /\ At(toks, d.pos, ",")
             THEN DeserializeLinearRgba(toks, d.pos + 1) ELSE Err
    IN  IF l.ok /\ At(toks, l.pos, "]")
        THEN Ok(ToonShader(c.val, d.val, l.val), l.pos + 1)
        ELSE Err

DeserializeToonShader(toks, i) ==
    IF At(toks, i, "{") THEN
        IF At(toks, i + 1, "}")
        THEN LET b == ToonShaderBuild([f \in {"cutoff", "dark", "light"} |-> <<>>])
             IN  IF b.ok THEN Ok(b.val, i + 2) ELSE Err
        ELSE ToonShaderMembers(toks, i + 1, [f \in {"cutoff", "dark", "light"} |-> <<>>])
    ELSE IF At(toks, i, "[") THEN ToonShaderSeq(toks, i + 1)
    ELSE Err

\* serde_json::from_str::<ToonShader>(s): the value, which must be followed by
\* the end of the text.
from_str_AllowTrailing(toks) ==
    LET r == DeserializeToonShader(toks, 1)
    IN  IF r.ok THEN r ELSE Err

from_str(toks) ==
    LET r == DeserializeToonShader(toks, 1)
    IN  IF r.ok /\ r.pos = Len(toks) + 1 THEN r ELSE Err

\* A StandardMaterial, as far as this model needs one.
StandardMaterial(roughness, metallic) ==
    [perceptual_roughness |-> roughness, metallic |-> metallic]

\* A variant whose default takes its cutoff from the base material.
from_standard_material_UsesBase(base, extras) ==
    LET r == IF extras.some THEN from_str(extras.text) ELSE Err
    IN  IF r.ok THEN r.val
        ELSE [DefaultToonShader EXCEPT !.cutoff = base.perceptual_roughness]

\* gltf_extras.and_then(|s| from_str(s).ok()).unwrap_or(default).
from_standard_material(base, extras) ==
    LET r == IF extras.some THEN from_str(extras.text) ELSE Err
    IN  IF r.ok THEN r.val ELSE DefaultToonShader

-----------------------------------------------------------------------------
(* The metadata documents the adapter is run on, and their text.           *)
(* A document says, for each key, what the author wrote for it:            *)
(*   cutoff  "absent", "number" (0.2), "string" ("0.2"), "twice";          *)
(*   dark    "absent", "rgba" ([0,0,0,1]), "map" ({"red":0,...}),          *)
(*           "rgb" ([0,0,0]), "number" (0);  light likewise, in white;     *)
(*   extra   an unknown key: "absent", "string", "nested";                 *)
(* in which order, and how the text ends: cut tokens short of its end, or  *)
(* with a stray token after it.                                            *)

CutoffSlots == {"absent", "number", "string", "twice"}
ColourSlots == {"absent", "rgba", "map", "rgb", "number"}
ExtraSlots == {"absent", "string", "nested"}

Doc(form, cutoff, dark, light, extra, order, cut, trail) ==
    [form |-> form, cutoff |-> cutoff, dark |-> dark, light |-> light,
     extra |-> extra, order |-> order, cut |-> cut, trail |-> trail]

AbsentDoc == Doc("absent", "absent", "absent", "absent", "absent", "fwd", 0, FALSE)

Docs ==
    {AbsentDoc}
    \cup {Doc(f, "absent", "absent", "absent", "absent", "fwd", 0, FALSE) :
            f \in {"null", "string", "junk"}}
    \cup {d \in [form : {"object", "array"}, cutoff : CutoffSlots,
                 dark : ColourSlots, light : ColourSlots, extra : ExtraSlots,
                 order : {"fwd", "rev"}, cut : 0..MaxCut, trail : BOOLEAN] :
            /\ d.trail => d.cut = 0
            /\ d.form = "array" =>
                  d.extra = "absent" /\ d.order = "fwd" /\ d.cutoff # "twice"}

\* The values the valid slots carry.
CutoffValue == 10000 \div 5      \* 0.2
ColourValue(key) ==
    IF key = "dark" THEN LinearRgba(0, 0, 0, 10000)
    ELSE LinearRgba(10000, 10000, 10000, 10000)

\* The JSON text of a value, per slot.
CutoffText(slot) ==
    CASE slot = "number" -> <<Num(CutoffValue)>>
      [] slot = "twice" -> <<Num(CutoffValue)>>
      [] slot = "string" -> <<Str("0.2")>>

ColourText(key, slot) ==
    LET c == ColourValue(key)
    IN  CASE slot = "rgba" ->
                <<Tok("["), Num(c.red), Tok(","), Num(c.green), Tok(","), Num(c.blue),
                  Tok(","), Num(c.alpha), Tok("]")>>
          [] slot = "rgb" ->
                <<Tok("["), Num(c.red), Tok(","), Num(c.green), Tok(","), Num(c.blue),
                  Tok("]")>>
          [] slot = "map" ->
                <<Tok("{"), Str("red"), Tok(":"), Num(c.red), Tok(","),
                  Str("green"), Tok(":"), Num(c.green), Tok(","),
                  Str("blue"), Tok(":"), Num(c.blue), Tok(","),
                  Str("alpha"), Tok(":"), Num(c.alpha), Tok("}")>>
          [] slot = "number" -> <<Num(c.red)>>

ExtraText(slot) ==
    CASE slot = "string" -> <<Str("ball")>>
      [] slot = "nested" ->
            <<Tok("["), Tok("{"), Str("a"), Tok(":"), Tok("["), Num(10000), Tok("]"),
              Tok("}"), Tok(","), Tok("null"), Tok("]")>>

Member(key, value) == <<Str(key), Tok(":")>> \o value

\* The members (object) or elements (array) a document writes, in order.
Parts(d) ==
    LET obj == d.form = "object"
        part(key, value) == IF obj THEN Member(key, value) ELSE value
        c == CASE d.cutoff = "absent" -> <<>>
               [] d.cutoff = "twice" ->
                     <<part("cutoff", CutoffText("twice")),
                       part("cutoff", <<Num(7000)>>)>>
               [] OTHER -> <<part("cutoff", CutoffText(d.cutoff))>>
        k == IF d.dark = "absent" THEN <<>>
             ELSE <<part("dark", ColourText("dark", d.dark))>>
        l == IF d.light = "absent" THEN <<>>
             ELSE <<part("light", ColourText("light", d.light))>>
        e == IF d.extra = "absent" THEN <<>>
             ELSE <<part("name", ExtraText(d.extra))>>
    IN  IF d.order = "fwd" THEN c \o k \o l \o e ELSE e \o l \o k \o c

RECURSIVE JoinComma(_)
JoinComma(parts) ==
    IF parts = <<>> THEN <<>>
    ELSE IF Len(parts) = 1 THEN parts[1]
    ELSE parts[1] \o <<Tok(",")>> \o JoinComma(Tail(parts))

\* The text of a document.
Render(d) ==
    LET whole ==
            CASE d.form = "null" -> <<Tok("null")>>
              [] d.form = "string" -> <<Str("not json")>>
              [] d.form = "junk" -> <<Tok("junk"), Tok("junk")>>
              [] d.form = "object" -> <<Tok("{")>> \o JoinComma(Parts(d)) \o <<Tok("}")>>
              [] d.form = "array" -> <<Tok("[")>> \o JoinComma(Parts(d)) \o <<Tok("]")>>
    IN  IF d.trail THEN Append(whole, Tok("}"))
        ELSE SubSeq(whole, 1, Len(whole) - d.cut)

ExtrasOf(d) == IF d.form = "absent" THEN NoExtras ELSE SomeExtras(Render(d))

-----------------------------------------------------------------------------
(* Spec: the application.                                                  *)

\* App::new(): an empty world, nothing loaded, time at zero.
Init ==
    /\ world = <<>>
    /\ loads = <<>>
    /\ elapsed = 0
    /\ started = FALSE
    /\ frames = 0
    /\ setupRuns = 0
    /\ animateRuns = 0
    /\ assigned = [x \in {} |-> IDENTITY]
    /\ fresh = FALSE
    /\ doc = AbsentDoc
    /\ gltf_extras = NoExtras
    /\ results = [b \in {} |-> DefaultToonShader]

\* The first run of the Main schedule starts with the Startup schedule.
RunStartup ==
    /\ ~started
    /\ started' = TRUE
    /\ Commit(RunSchedule(StartupSystems, SystemState, elapsed))
    /\ UNCHANGED <<elapsed, frames, fresh, doc, gltf_extras, results>>

\* One frame: the time resource advances by dt, then the Update schedule runs.
RunUpdate(dt) ==
    /\ started
    /\ frames < MaxFrames
    /\ elapsed' = elapsed + dt
    /\ frames' = frames + 1
    /\ fresh' = TRUE
    /\ Commit(RunSchedule(UpdateSystems, SystemState, elapsed + dt))
    /\ UNCHANGED <<started, doc, gltf_extras, results>>

Next ==
    \/ RunStartup
    \/ \E dt \in 0..MaxDelta : RunUpdate(dt)

Spec == Init /\ [][Next]_vars

-----------------------------------------------------------------------------
(* SpecAnimate: animate_light_direction run on an arbitrary world at an    *)
(* arbitrary elapsed time.                                                 *)

Rotations == {IDENTITY, HelmetTransform.rotation, CameraTransform.rotation}

Entities ==
    {Entity("entity", l, [TransformIdentity EXCEPT !.rotation = r]) :
        l \in BOOLEAN, r \in Rotations}

Worlds == UNION {[1..n -> Entities] : n \in 0..MaxEntities}

InitAnimate ==
    /\ world \in Worlds
    /\ loads = <<>>
    /\ elapsed \in 0..(2 * MaxDelta)
    /\ started = TRUE
    /\ frames = 0
    /\ setupRuns = 0
    /\ animateRuns = 0
    /\ assigned = [x \in {} |-> IDENTITY]
    /\ fresh = FALSE
    /\ doc = AbsentDoc
    /\ gltf_extras = NoExtras
    /\ results = [b \in {} |-> DefaultToonShader]

RunAnimate ==
    /\ animateRuns < MaxFrames
    /\ fresh' = TRUE
    /\ Commit(animate_light_direction(SystemState, elapsed))
    /\ UNCHANGED <<elapsed, started, frames, doc, gltf_extras, results>>

NextAnimate == RunAnimate

SpecAnimate == InitAnimate /\ [][NextAnimate]_vars

-----------------------------------------------------------------------------
(* Properties of animate_light_direction, of setup and of the schedule.    *)

\* The composition rotate-about-Z by 0, rotate-about-Y by elapsed_seconds * pi/5,
\* rotate-about-X by -pi/4, written out: with h = elapsed_seconds * pi/10 (t angle
\* units at tick t) and k = -pi/8,
\*   (cos h sin k, sin h cos k, -(sin h sin k), cos h cos k).
EulerComposition(t) ==
    Quat(Mul(Cos(t), Sin(-1)), Mul(Sin(t), Cos(-1)),
         -Mul(Sin(t), Sin(-1)), Mul(Cos(t), Cos(-1)))

\* C7: after a run of animate_light_direction every entity with a
\* DirectionalLight has the rotation EulerComposition(elapsed), whatever it had
\* before; a run changes nothing but the rotation of those entities, so with no
\* such entity it changes nothing.
C7_RotationIsFunctionOfElapsed ==
    /\ [](fresh => \A i \in LightQuery(world) :
                      world[i].transform.rotation = EulerComposition(elapsed))
    /\ [][/\ DOMAIN world' = DOMAIN world
          /\ \A i \in DOMAIN world :
                IF world[i].light
                THEN world'[i] = [world[i] EXCEPT !.transform.rotation =
                                     world'[i].transform.rotation]
                ELSE world'[i] = world[i]
          /\ (LightQuery(world) = {} => world' = world)]_vars

\* C7 witness: the system has run twice, at an elapsed time other than zero, on
\* a world with a light and an entity without one.
C7_Witness ==
    /\ fresh
    /\ animateRuns = 2
    /\ elapsed > 0
    /\ LightQuery(world) # {}
    /\ LightQuery(world) # DOMAIN world

\* Ten seconds, in ticks of 5/4 s.
PeriodTicks == (10 * 4) \div 5

\* C8 as stated: the rotation assigned at t + 10 s equals the one assigned at t.
C8_SameValueAfterTenSeconds ==
    \A t \in DOMAIN assigned :
        (t + PeriodTicks) \in DOMAIN assigned =>
            assigned[t + PeriodTicks] = assigned[t]

\* C8 amended: the quaternion assigned at t + 10 s is the negation of the one
\* assigned at t (the same orientation), and the one assigned at t + 20 s is
\* the one assigned at t.
C8_NegatedAfterTenSeconds ==
    \A t \in DOMAIN assigned :
        /\ (t + PeriodTicks) \in DOMAIN assigned =>
               assigned[t + PeriodTicks] = QuatNeg(assigned[t])
        /\ (t + 2 * PeriodTicks) \in DOMAIN assigned =>
               assigned[t + 2 * PeriodTicks] = assigned[t]

\* C8 witness: rotations were assigned at t, t + 10 s and t + 20 s.
C8_Witness ==
    \E t \in DOMAIN assigned :
        /\ (t + PeriodTicks) \in DOMAIN assigned
        /\ (t + 2 * PeriodTicks) \in DOMAIN assigned
        /\ t > 0

\* C9: no two load requests name the same file with different settings.
C9_OnePathOneSettings ==
    \A i, j \in DOMAIN loads :
        loads[i].path = loads[j].path => loads[i].settings = loads[j].settings

\* C9 witness: setup has issued its loads, one scene with the ToonMaterial
\* override and one scene with default settings.
C9_Witness ==
    /\ setupRuns = 1
    /\ \E i, j \in DOMAIN loads :
          /\ loads[i].label = "Scene0" /\ loads[j].label = "Scene0"
          /\ loads[i].settings = "with_default_material<ToonMaterial>"
          /\ loads[j].settings = "default"

\* The transforms of the entities that carry a DirectionalLight.
LightTransforms == [i \in LightQuery(world) |-> world[i].transform]

\* C10: setup runs exactly once, before any run of animate_light_direction;
\* animate_light_direction runs once per frame; after setup there is exactly
\* one DirectionalLight entity and only a run of animate_light_direction
\* changes its transform.
C10_Schedule ==
    /\ [](/\ setupRuns = (IF started THEN 1 ELSE 0)
          /\ (~started => animateRuns = 0)
          /\ animateRuns = frames
          /\ (started => Cardinality(LightQuery(world)) = 1))
    /\ [][/\ (setupRuns' # setupRuns => animateRuns = 0 /\ animateRuns' = 0)
          /\ (frames' # frames =>
                 frames' = frames + 1 /\ animateRuns' = animateRuns + 1)
          /\ (started /\ LightTransforms' # LightTransforms =>
                 animateRuns' = animateRuns + 1 /\ setupRuns' = setupRuns)]_vars

\* C10 witness: setup has run and two frames later the light has been turned.
C10_Witness ==
    /\ setupRuns = 1
    /\ frames = 2
    /\ animateRuns = 2
    /\ \E i \in LightQuery(world) : world[i].transform.rotation # IDENTITY

-----------------------------------------------------------------------------
(* SpecAdapter: from_standard_material called, for the metadata text of an *)
(* arbitrary document, with each base material.                            *)

Bases == {StandardMaterial(5000, 0), StandardMaterial(9000, 10000)}

InitAdapter ==
    /\ world = <<>>
    /\ loads = <<>>
    /\ elapsed = 0
    /\ started = FALSE
    /\ frames = 0
    /\ setupRuns = 0
    /\ animateRuns = 0
    /\ assigned = [x \in {} |-> IDENTITY]
    /\ fresh = FALSE
    /\ doc \in Docs
    /\ gltf_extras = ExtrasOf(doc)
    /\ results = [b \in {} |-> DefaultToonShader]

\* The glTF loader builds the material extension for one base material.
FromStandardMaterial(base) ==
    /\ base \notin DOMAIN results
    /\ results' = [b \in DOMAIN results \cup {base} |->
                      IF b = base THEN from_standard_material(base, gltf_extras)
                      ELSE results[b]]
    /\ UNCHANGED <<world, loads, elapsed, started, frames, setupRuns, animateRuns,
                   assigned, fresh, doc, gltf_extras>>

NextAdapter == \E base \in Bases : FromStandardMaterial(base)

SpecAdapter == InitAdapter /\ [][NextAdapter]_vars

-----------------------------------------------------------------------------
(* Properties of from_standard_material.                                   *)

\* The documented default: cutoff 0.5, dark (0.4, 0.4, 0.4), light (0.8, 0.8, 0.8).
IsDocumentedDefault(t) ==
    /\ t.cutoff = 5000
    /\ <<t.dark.red, t.dark.green, t.dark.blue>> = <<4000, 4000, 4000>>
    /\ <<t.light.red, t.light.green, t.light.blue>> = <<8000, 8000, 8000>>

\* The values a document carries in its valid slots.
Carried(d) == ToonShader(CutoffValue, ColourValue("dark"), ColourValue("light"))

\* The text is the whole JSON object the document describes.
WholeObject(d) == d.form = "object" /\ d.cut = 0 /\ ~d.trail

ValidColourSlots == {"rgba", "map"}

\* All three known keys are written once, each with a value of its type.
AllThreeValid(d) ==
    d.cutoff = "number" /\ d.dark \in ValidColourSlots /\ d.light \in ValidColourSlots

\* The text is not JSON (junk, cut short, a stray token after it), is JSON of
\* another shape (null, a string), or writes a known key twice or with a value
\* of the wrong type.
Malformed(d) ==
    \/ d.form \in {"null", "string", "junk"}
    \/ /\ d.form \in {"object", "array"}
       /\ \/ d.cut > 0
          \/ d.trail
          \/ d.cutoff \in {"string", "twice"}
          \/ d.dark \in {"rgb", "number"}
          \/ d.light \in {"rgb", "number"}

\* C1: with gltf_extras = None every result is the documented default.
C1_AbsentGivesDefault ==
    ~gltf_extras.some => \A b \in DOMAIN results : IsDocumentedDefault(results[b])

\* C1 witness: from_standard_material was called with None for every base.
C1_Witness == ~gltf_extras.some /\ DOMAIN results = Bases

\* C2: for a well-formed object that writes exactly the three keys, every result
\* equals the written values field for field.
C2_AllFieldsParsed ==
    WholeObject(doc) /\ AllThreeValid(doc) /\ doc.extra = "absent" =>
        \A b \in DOMAIN results :
            /\ results[b].cutoff = CutoffValue
            /\ results[b].dark = ColourValue("dark")
            /\ results[b].light = ColourValue("light")

\* C2 witness: such an object, keys in reverse order and dark written as a map,
\* was converted for every base.
C2_Witness ==
    /\ WholeObject(doc) /\ AllThreeValid(doc) /\ doc.extra = "absent"
    /\ doc.order = "rev" /\ doc.dark = "map"
    /\ DOMAIN results = Bases

\* C3: for a present text whose parse fails every result is the documented
\* default, whole.
C3_MalformedGivesDefault ==
    gltf_extras.some /\ Malformed(doc) =>
        \A b \in DOMAIN results : IsDocumentedDefault(results[b])

\* C3 witness: a text with cutoff and light valid and dark of the wrong type was
\* converted.
C3_Witness ==
    /\ gltf_extras.some /\ WholeObject(doc)
    /\ doc.cutoff = "number" /\ doc.dark = "number" /\ doc.light = "rgba"
    /\ DOMAIN results = Bases

\* C4 as stated: an object with an unknown key gives the documented default,
\* also when the three known keys are all valid.
C4_UnknownKeyGivesDefault ==
    WholeObject(doc) /\ doc.extra # "absent" =>
        \A b \in DOMAIN results : IsDocumentedDefault(results[b])

\* C4 amended: an unknown key and its value are ignored: with the three known
\* keys all valid the result is the values written, otherwise the default.
C4_UnknownKeyIgnored ==
    WholeObject(doc) /\ doc.extra # "absent" =>
        \A b \in DOMAIN results :
            IF AllThreeValid(doc) THEN results[b] = Carried(doc)
            ELSE IsDocumentedDefault(results[b])

\* C4 witness: an object with the three keys valid and an unknown key holding a
\* nested value was converted.
C4_Witness ==
    /\ WholeObject(doc) /\ AllThreeValid(doc) /\ doc.extra = "nested"
    /\ DOMAIN results = Bases

\* Only some of the three keys are written, each of those with a valid value.
OnlySomeValid(d) ==
    /\ d.cutoff \in {"absent", "number"}
    /\ d.dark \in {"absent"} \cup ValidColourSlots
    /\ d.light \in {"absent"} \cup ValidColourSlots
    /\ "absent" \in {d.cutoff, d.dark, d.light}
    /\ {d.cutoff, d.dark, d.light} # {"absent"}

\* C5: an object that writes valid values for only some of the three keys gives
\* the documented default in every field.
C5_MissingKeyGivesWholeDefault ==
    WholeObject(doc) /\ OnlySomeValid(doc) =>
        \A b \in DOMAIN results : IsDocumentedDefault(results[b])

\* C5 witness: an object with cutoff and dark valid and no light was converted.
C5_Witness ==
    /\ WholeObject(doc)
    /\ doc.cutoff = "number" /\ doc.dark = "rgba" /\ doc.light = "absent"
    /\ DOMAIN results = Bases

\* C6: the results for two base materials and the same text are equal, and a
\* call changes nothing but the result it returns.
C6_BaseIgnoredNoSideEffect ==
    /\ [](\A b1, b2 \in DOMAIN results : results[b1] = results[b2])
    /\ [][/\ UNCHANGED <<world, loads, elapsed, started, frames, setupRuns,
                        animateRuns, assigned, fresh, doc, gltf_extras>>
          /\ \A b \in DOMAIN results : b \in DOMAIN results' /\ results'[b] = results[b]
         ]_vars

\* C6 witness: the same text was converted for two different base materials,
\* once on the default path.
C6_Witness ==
    /\ Cardinality(DOMAIN results) = 2
    /\ \E b \in DOMAIN results : IsDocumentedDefault(results[b])
    /\ gltf_extras.some

====
